---- MODULE Spec2Model ----
(***************************************************************************)
(* A model of docs-server's reactive build pipeline (src/src/pipeline.ts)  *)
(* and of its file-change source (src/src/file-watcher.ts).  The reactive  *)
(* engine the pipeline calls into (@zeix/cause-effect: lists, derived      *)
(* collections, tasks, effects, match) is not part of the source tree; its *)
(* operators are modelled from the specification's sections 3 to 5.        *)
(***************************************************************************)
EXTENDS Integers, Sequences, FiniteSets, TLC

(***************************************************************************)
(* Bounds                                                                  *)
(***************************************************************************)
\* File contents are told apart by their hash, 1..MaxHash; 0 is "no file".
MaxHash == 3
\* Environment events (file changes, touches, config writes) in one run.
MaxOps == 2
\* Generations a Task may reach.
MaxGen == 3
\* Write batches (Promise.all's of one Effect run) in flight at once.
MaxBatches == 2

(***************************************************************************)
(* Names                                                                   *)
(***************************************************************************)
\* The markdown files under srcDir.
Keys == {"a", "b", "c"}
\* Glob.scan's order of the initial files.
ScanOrder == <<"a", "b", "c">>
\* The four lists createPipeline creates, in creation order.
Lists == <<"mdFiles", "componentFiles", "assetFiles", "tsFiles">>
Tasks == {"layoutTask", "bundleTask", "assetTask", "typedocTask"}
\* Mutant: typedocTask is left out of the Tasks given to match.
MatchOrderWithoutTypedoc == <<"layoutTask", "bundleTask", "assetTask">>
\* The order in which match is given the Tasks.
MatchOrder == <<"layoutTask", "bundleTask", "assetTask", "typedocTask">>
\* Fields of the config Store.
Fields == {"title", "baseUrl", "nav", "srcDir"}
\* The node an iteration of a collection reads (its key structure).
KeysNode == "pageDataCollection"
\* The page made from typedocTask's result.
ApiPage == "api"
NoItem == [st |-> "None", hash |-> 0]
NoFile == [hash |-> 0, mtime |-> 0]

VARIABLES
    watch,          \* options.watch
    created,        \* how many of Lists createPipeline has created so far
    pc,             \* "create" | "running" | "disposed" | "crashed"
    dirOnDisk,      \* list -> its directory exists when the list is created
    fs,             \* srcDir on disk: key -> [hash, mtime] (hash 0: absent)
    events,         \* fs.watch events not yet delivered, by key
    cbs,            \* watch callbacks suspended inside getFileInfo
    watcher,        \* list -> "none" | "active" | "closed"
    mdFiles,        \* the List<FileInfo> of the markdown files
    derived,        \* pageDataCollection: key -> derived item
    recomputed,     \* keys whose transform was invoked by the last step
    task,           \* Task -> [st, gen, of]
    running,        \* Task -> generations whose async body has not completed
    config,         \* the config Store: field -> value
    effectLive,     \* the write Effect exists and is not disposed
    effectDeps,     \* the nodes the write Effect read on its last run
    lastRun,        \* [branch, pages] of the write Effect's last run
    effectRan,      \* the last step ran the write Effect
    batches,        \* write batches in flight, oldest first; a batch is
                    \* [initial, todo, content], initial marking the first
                    \* batch the Effect ever started
    out,            \* outDir on disk: page -> content written
    buildResolved,  \* buildPromise is resolved (buildResolve = null)
    initialBuildDone,
    notified,       \* the last step invoked options.onPagesWritten
    suppressed,     \* the last step was a superseded generation's completion
    burst,          \* typedocTask bodies invoked by the tsFiles events that
                    \* arrived back to back, nothing else happening between
    ops,            \* environment events so far
    bundle,         \* [throws, result]: whether bundleComponents throws on
                    \* this project's components, and the BundleResult
                    \* bundleTask last settled with
    eng,            \* a two-stage derivation driven directly (see below)
    fcall           \* a call of one of the pure functions: its arguments
                    \* and, once it returned, its result

vars == <<watch, created, pc, dirOnDisk, fs, events, cbs, watcher, mdFiles, derived,
          recomputed, task, running, config, effectLive, effectDeps, lastRun,
          effectRan, batches, out, buildResolved, initialBuildDone, notified,
          suppressed, burst, ops, bundle, eng, fcall>>

(***************************************************************************)
(* KeyedCollection (List) operations                                       *)
(***************************************************************************)
ListKeys(list) == {list[i].path : i \in 1..Len(list)}

\* list.byKey(k): the item's position, 0 when the key is absent.
byKey(list, k) ==
    IF \E i \in 1..Len(list) : list[i].path = k
    THEN CHOOSE i \in 1..Len(list) : list[i].path = k
    ELSE 0

ItemOf(list, k) == list[byKey(list, k)]

ListRemove(list, k) == SelectSeq(list, LAMBDA it : it.path # k)

ListAdd(list, item) == Append(list, item)

\* item.set(v): the item takes the value unless it is structurally equal.
ListSet(list, k, item) ==
    [i \in 1..Len(list) |-> IF list[i].path = k THEN item ELSE list[i]]

\* The keys item.set(v) marks dirty.
SetDirty(list, k, item) ==
    IF byKey(list, k) # 0 /\ ItemOf(list, k) # item THEN {k} ELSE {}

(***************************************************************************)
(* CollectionDerivation: pageDataCollection = mdFiles.deriveCollection(f)  *)
(***************************************************************************)
\* Mutant: the transform also reads the other items of the list.
TransformReadsList(k) == Keys

\* The source items the transform of key k reads: its own file only.
TransformReads(k) == {k}

\* Markdoc.transform runs the schemas' transform functions, which may throw
\* on a document; which documents do is a property of their content.
Throws(h) == h = MaxHash

\* The per-item transform: synchronous, so its Task settles as it is invoked.
processMarkdoc(file) ==
    [st |-> IF Throws(file.hash) THEN "Err" ELSE "Ok", hash |-> file.hash]

\* The keys whose Task the derivation invokes when the source goes from
\* list to list2 with the items in dirty changed: new keys, and the keys
\* whose transform read a changed item.
Invalidated(list, list2, dirty) ==
    {k \in ListKeys(list2) :
        k \notin ListKeys(list) \/ TransformReads(k) \cap dirty # {}}

\* Mutant: the derivation keeps the item of a key removed upstream.
deriveCollectionKeepingRemoved(der, list, list2, dirty) ==
    [k \in Keys |->
        IF k \in Invalidated(list, list2, dirty)
        THEN processMarkdoc(ItemOf(list2, k))
        ELSE der[k]]

\* The derived collection after the source went from list to list2: the
\* items of removed keys are gone, those of new and invalidated keys are
\* computed, the others kept.
deriveCollection(der, list, list2, dirty) ==
    [k \in Keys |->
        IF k \notin ListKeys(list2) THEN NoItem
        ELSE IF k \in Invalidated(list, list2, dirty)
             THEN processMarkdoc(ItemOf(list2, k))
             ELSE der[k]]

\* The nodes of the derived collection that a step changed.
DerivedChanged(der, der2) ==
    {k \in Keys : der[k] # der2[k] /\ der[k] # NoItem /\ der2[k] # NoItem}
    \cup (IF {k \in Keys : der[k] = NoItem} # {k \in Keys : der2[k] = NoItem}
          THEN {KeysNode} ELSE {})

(***************************************************************************)
(* Task                                                                    *)
(***************************************************************************)
\* createTask: the Task starts Pending, its body invoked as generation 1.
createTask == [st |-> "Pending", gen |-> 1, of |-> 0]

\* Mutant: an invalidated Task keeps showing its last result while the new
\* generation runs.
InvalidateKeepingValue(t) == [t EXCEPT !.gen = @ + 1]

\* A dependency changed: a new generation starts and the Task is Pending.
Invalidate(t) == [st |-> "Pending", gen |-> t.gen + 1, of |-> 0]

\* Mutant: a completion is delivered whatever its generation.
SettleAnyGeneration(t, g, outcome) == [st |-> outcome, gen |-> t.gen, of |-> g]

\* Generation g's body completed with outcome ("Ok" or "Err"): delivered
\* only when g is the Task's latest generation.
Settle(t, g, outcome) ==
    IF g = t.gen THEN [st |-> outcome, gen |-> t.gen, of |-> g] ELSE t

\* Mutant: bundleTask lets the exception of bundleComponents through.
OutcomesBundleRethrows(t) ==
    IF t = "layoutTask" THEN {"Ok"} ELSE {"Ok", "Err"}

\* The outcomes a Task's body can complete with.  layoutTask and bundleTask
\* catch every exception of their body and return a default.
Outcomes(t) ==
    IF t \in {"layoutTask", "bundleTask"} THEN {"Ok"} ELSE {"Ok", "Err"}

\* What bundleTask's body returns: the result of bundleComponents, or the
\* result with empty paths when bundleComponents threw.
BundleResult(throws) == IF throws THEN "empty" ELSE "paths"

\* The list a Task's body reads before its first await.
TaskSource(t) ==
    CASE t = "bundleTask" -> "componentFiles"
      [] t = "assetTask" -> "assetFiles"
      [] t = "typedocTask" -> "tsFiles"
      [] OTHER -> "none"

(***************************************************************************)
(* match and the write Effect                                              *)
(***************************************************************************)
\* match(tasks, {ok, nil, err}): the handlers it invokes for these states.
match(states) ==
    LET anyErr == \E i \in 1..Len(states) : states[i] = "Err"
        allOk == \A i \in 1..Len(states) : states[i] = "Ok"
    IN  (IF allOk THEN {"ok"} ELSE {})
        \cup (IF anyErr THEN {"err"} ELSE {})
        \cup (IF ~allOk /\ ~anyErr THEN {"nil"} ELSE {})

\* The config fields the ok handler reads.
ConfigReads == {"nav", "baseUrl", "title"}

\* Positions of the derived items whose get() throws.
ErrAt(list, der) == {i \in 1..Len(list) : der[list[i].path].st = "Err"}

\* Mutant: a run that throws leaves the Effect with no dependency, so
\* that nothing re-runs it.
RunEffectDeadAfterThrow(list, der, tk) ==
    LET hs == match([i \in 1..Len(MatchOrder) |-> tk[MatchOrder[i]].st])
    IN  IF ErrAt(list, der) # {}
        THEN [threw |-> TRUE, handlers |-> {}, deps |-> {}, pages |-> <<>>]
        ELSE [threw |-> FALSE, handlers |-> hs,
              deps |-> {KeysNode} \cup ListKeys(list) \cup Tasks
                       \cup (IF "ok" \in hs THEN ConfigReads ELSE {}),
              pages |-> IF "ok" \in hs
                        THEN [i \in 1..Len(list) |-> list[i].path]
                             \o <<ApiPage>>
                        ELSE <<>>]

\* One run of the write Effect's body over the given graph state: whether
\* the eager read threw, the handlers match invoked, the nodes read, the
\* pages whose write was started.
RunEffect(list, der, tk) ==
    LET errs == ErrAt(list, der)
        first == IF errs = {} THEN 0
                 ELSE CHOOSE i \in errs : \A j \in errs : i <= j
        hs == match([i \in 1..Len(MatchOrder) |-> tk[MatchOrder[i]].st])
    IN  IF first # 0
        THEN [threw |-> TRUE, handlers |-> {},
              deps |-> {KeysNode} \cup {list[i].path : i \in 1..first},
              pages |-> <<>>]
        ELSE [threw |-> FALSE, handlers |-> hs,
              deps |-> {KeysNode} \cup ListKeys(list) \cup Tasks
                       \cup (IF "ok" \in hs THEN ConfigReads ELSE {}),
              pages |-> IF "ok" \in hs
                        THEN [i \in 1..Len(list) |-> list[i].path]
                             \o <<ApiPage>>
                        ELSE <<>>]

\* What a run writes to a page: the markdown page's content, or for the
\* API page the generation of typedocTask's result.
PageContent(p, der, tk) ==
    IF p = ApiPage THEN tk["typedocTask"].of ELSE der[p].hash

PageKeys == Keys \cup {ApiPage}

\* Mutant: the nodes read by a run are added to the Effect's dependencies,
\* those of earlier runs kept.
EffectRunsMergingDeps(list2, der2, tk2) ==
    LET r == RunEffect(list2, der2, tk2)
    IN  /\ effectRan' = TRUE
        /\ effectDeps' = effectDeps \cup r.deps
        /\ lastRun' = [threw |-> r.threw, handlers |-> r.handlers,
                       pages |-> r.pages]
        /\ batches' =
              IF "ok" \in r.handlers
              THEN Append(batches,
                     [initial |-> (~initialBuildDone /\ batches = <<>>),
                      todo |-> r.pages,
                      content |-> [p \in PageKeys |->
                          IF \E i \in 1..Len(r.pages) : r.pages[i] = p
                          THEN PageContent(p, der2, tk2)
                          ELSE 0]])
              ELSE batches
        /\ buildResolved' = (buildResolved \/ "err" \in r.handlers)

\* Mutant: the err handler reports the error and leaves the build promise
\* pending.
EffectRunsErrLeavesBuildPending(list2, der2, tk2) ==
    LET r == RunEffect(list2, der2, tk2)
    IN  /\ effectRan' = TRUE
        /\ effectDeps' = r.deps
        /\ lastRun' = [threw |-> r.threw, handlers |-> r.handlers,
                       pages |-> r.pages]
        /\ batches' =
              IF "ok" \in r.handlers
              THEN Append(batches,
                     [initial |-> (~initialBuildDone /\ batches = <<>>),
                      todo |-> r.pages,
                      content |-> [p \in PageKeys |->
                          IF \E i \in 1..Len(r.pages) : r.pages[i] = p
                          THEN PageContent(p, der2, tk2)
                          ELSE 0]])
              ELSE batches
        /\ UNCHANGED buildResolved

\* The write Effect runs.
EffectRuns(list2, der2, tk2) ==
    LET r == RunEffect(list2, der2, tk2)
    IN  /\ effectRan' = TRUE
        /\ effectDeps' = r.deps
        /\ lastRun' = [threw |-> r.threw, handlers |-> r.handlers,
                       pages |-> r.pages]
        /\ batches' =
              IF "ok" \in r.handlers
              THEN Append(batches,
                     [initial |-> (~initialBuildDone /\ batches = <<>>),
                      todo |-> r.pages,
                      content |-> [p \in PageKeys |->
                          IF \E i \in 1..Len(r.pages) : r.pages[i] = p
                          THEN PageContent(p, der2, tk2)
                          ELSE 0]])
              ELSE batches
        /\ buildResolved' = (buildResolved \/ "err" \in r.handlers)

EffectIdle ==
    /\ effectRan' = FALSE
    /\ UNCHANGED <<effectDeps, lastRun, batches, buildResolved>>

\* Mutant: the Effect is re-run by any write, whatever it read.
PropagateUntracked(changed, list2, der2, tk2) ==
    IF effectLive /\ changed # {}
    THEN EffectRuns(list2, der2, tk2)
    ELSE EffectIdle

\* Mutant: the Effect re-run by a batch reads the graph as it was before
\* the batch.
PropagatePreBatch(changed, list2, der2, tk2) ==
    IF effectLive /\ changed \cap effectDeps # {}
    THEN EffectRuns(mdFiles, derived, task)
    ELSE EffectIdle

\* Mutant: the Effect is re-run only once no Task is Pending.
PropagateWhenSettled(changed, list2, der2, tk2) ==
    IF /\ effectLive
       /\ changed \cap effectDeps # {}
       /\ \A t \in Tasks : tk2[t].st # "Pending"
    THEN EffectRuns(list2, der2, tk2)
    ELSE EffectIdle

\* The propagation pass that ends a batch of writes: the write Effect is
\* re-run once when a node it read on its last run is among the changed.
Propagate(changed, list2, der2, tk2) ==
    IF effectLive /\ changed \cap effectDeps # {}
    THEN EffectRuns(list2, der2, tk2)
    ELSE EffectIdle


(***************************************************************************)
(* The engine driven directly: a KeyedCollection whose owner calls         *)
(* update(key, value), a two-stage derivation over it (derive, derive) and *)
(* a terminal Effect that matches the second stage's Tasks.  The Tasks'    *)
(* bodies are asynchronous.                                                *)
(***************************************************************************)
EKeys == {"x", "y"}
EOrder == <<"x", "y">>
\* Values an item is updated to.
MaxVal == 2
\* update() calls in one run.
MaxCalls == 2

\* Mutant: update() marks the item dirty without comparing the values.
updateDirtyAlways(list, k, item) == {k}

\* update(key, value): the keys it marks dirty, after the structural
\* equality check.
updateDirty(list, k, item) == SetDirty(list, k, item)

\* Mutant: a Task reading a Pending Task invokes its body all the same.
readTaskEager(u) == IF u.st = "Err" THEN "Err" ELSE "invoke"

\* What a Task does when it reads Task u: it stays Pending, takes u's
\* error, or invokes its body on u's value.
readTask(u) ==
    CASE u.st = "Pending" -> "Pending"
      [] u.st = "Err" -> "Err"
      [] OTHER -> "invoke"

\* The second-stage Task t, freshly invalidated, reading first-stage u.
Reread(t, u) ==
    LET t2 == Invalidate(t)
    IN  IF readTask(u) = "Err" THEN Settle(t2, t2.gen, "Err") ELSE t2

\* The pending-task counter: incremented on invalidation, decremented on
\* settlement to Ok/Err.
CountInvalidation(n) == n + 1
CountSettlement(n) == n - 1

\* Mutant: the Effect is run once for every dependency a batch changed.
EffectRunsPerWrite(changed) == Cardinality(changed)

\* How often one propagation pass runs an Effect of which the dependencies
\* in changed were written in the batch: once per dirtying batch.
EffectRunsInPass(changed) == IF changed = {} THEN 0 ELSE 1

\* The second-stage Tasks whose state a step changed: the dependencies of
\* the terminal Effect written in that step.
ChangedTasks(s2, s2b) == {j \in EKeys : s2b[j].st # s2[j].st}

EngMatch(s2) == match([i \in 1..Len(EOrder) |-> s2[EOrder[i]].st])

EngInit ==
    [items |-> [i \in 1..Len(EOrder) |-> [path |-> EOrder[i], hash |-> 1]],
     s1 |-> [k \in EKeys |-> createTask],
     run1 |-> [k \in EKeys |-> {1}],
     s2 |-> [k \in EKeys |-> createTask],
     run2 |-> [k \in EKeys |-> {}],
     call |-> [key |-> "none", same |-> FALSE],
     invoked |-> {},
     ran |-> FALSE,
     handlers |-> {"nil"},
     calls |-> 0,
     pending |-> 2 * Len(EOrder),
     runs |-> 0]

PipelineVars ==
    <<watch, created, pc, dirOnDisk, fs, events, cbs, watcher, mdFiles,
      derived, recomputed, task, running, config, effectLive, effectDeps, lastRun,
      effectRan, batches, out, buildResolved, initialBuildDone, notified,
      suppressed, burst, ops, bundle>>

\* The collection's owner calls update(k, v).
update ==
    \E k \in EKeys, v \in 1..MaxVal :
      LET item == [path |-> k, hash |-> v]
          dirty == updateDirty(eng.items, k, item)
          s1b == [j \in EKeys |->
                    IF j \in dirty THEN Invalidate(eng.s1[j]) ELSE eng.s1[j]]
          s2b == [j \in EKeys |->
                    IF j \in dirty THEN Reread(eng.s2[j], s1b[j])
                    ELSE eng.s2[j]]
          inv2 == {j \in dirty : readTask(s1b[j]) = "invoke"}
      IN  /\ eng.calls < MaxCalls
          /\ eng' = [items |-> ListSet(eng.items, k, item),
                     s1 |-> s1b,
                     run1 |-> [j \in EKeys |->
                         IF j \in dirty THEN eng.run1[j] \cup {s1b[j].gen}
                         ELSE eng.run1[j]],
                     s2 |-> s2b,
                     run2 |-> [j \in EKeys |->
                         IF j \in inv2 THEN eng.run2[j] \cup {s2b[j].gen}
                         ELSE eng.run2[j]],
                     call |-> [key |-> k,
                               same |-> (ItemOf(eng.items, k) = item)],
                     invoked |-> {<<1, j>> : j \in dirty}
                                 \cup {<<2, j>> : j \in inv2},
                     ran |-> (\E j \in EKeys : s2b[j].st # eng.s2[j].st),
                     handlers |-> EngMatch(s2b),
                     calls |-> eng.calls + 1,
                     runs |-> EffectRunsInPass(ChangedTasks(eng.s2, s2b)),
                     pending |->
                        IF k \in dirty
                        THEN LET n == CountInvalidation(CountInvalidation(eng.pending))
                             IN  IF s2b[k].st = "Err" THEN CountSettlement(n) ELSE n
                        ELSE eng.pending]
          /\ UNCHANGED <<PipelineVars, fcall>>

\* The body of generation g of the first-stage Task of k completes; when
\* that settles the Task, the second-stage Task reads it again.
settleFirst ==
    \E k \in EKeys : \E g \in eng.run1[k], o \in {"Ok", "Err"} :
      LET u == Settle(eng.s1[k], g, o)
          settled == u # eng.s1[k]
          t == IF settled /\ readTask(u) = "Err"
               THEN Settle(eng.s2[k], eng.s2[k].gen, "Err")
               ELSE eng.s2[k]
          inv2 == settled /\ readTask(u) = "invoke"
      IN  /\ eng' = [eng EXCEPT
                       !.s1[k] = u,
                       !.run1[k] = @ \ {g},
                       !.s2[k] = t,
                       !.run2[k] = IF inv2 THEN @ \cup {t.gen} ELSE @,
                       !.call = [key |-> "none", same |-> FALSE],
                       !.invoked = IF inv2 THEN {<<2, k>>} ELSE {},
                       !.ran = (t.st # eng.s2[k].st),
                       !.handlers = EngMatch([eng.s2 EXCEPT ![k] = t]),
                       !.runs = EffectRunsInPass(
                                   ChangedTasks(eng.s2, [eng.s2 EXCEPT ![k] = t])),
                       !.pending =
                          LET n == IF settled THEN CountSettlement(@) ELSE @
                          IN  IF t # eng.s2[k] THEN CountSettlement(n) ELSE n]
          /\ UNCHANGED <<PipelineVars, fcall>>

\* The body of generation g of the second-stage Task of k completes.
settleSecond ==
    \E k \in EKeys : \E g \in eng.run2[k], o \in {"Ok", "Err"} :
      LET t == Settle(eng.s2[k], g, o)
      IN  /\ eng' = [eng EXCEPT
                       !.s2[k] = t,
                       !.run2[k] = @ \ {g},
                       !.call = [key |-> "none", same |-> FALSE],
                       !.invoked = {},
                       !.ran = (t.st # eng.s2[k].st),
                       !.handlers = EngMatch([eng.s2 EXCEPT ![k] = t]),
                       !.runs = EffectRunsInPass(
                                   ChangedTasks(eng.s2, [eng.s2 EXCEPT ![k] = t])),
                       !.pending = IF t # eng.s2[k] THEN CountSettlement(@) ELSE @]
          /\ UNCHANGED <<PipelineVars, fcall>>

\* The collection's owner updates every key to v within one batch: the
\* writes are applied, then one propagation pass follows.
updateBatch ==
    \E v \in 1..MaxVal :
      LET item(k) == [path |-> k, hash |-> v]
          dirty == UNION {updateDirty(eng.items, k, item(k)) : k \in EKeys}
          s1b == [j \in EKeys |->
                    IF j \in dirty THEN Invalidate(eng.s1[j]) ELSE eng.s1[j]]
          s2b == [j \in EKeys |->
                    IF j \in dirty THEN Reread(eng.s2[j], s1b[j])
                    ELSE eng.s2[j]]
          inv2 == {j \in dirty : readTask(s1b[j]) = "invoke"}
          errs == {j \in dirty : s2b[j].st = "Err"}
      IN  /\ eng.calls < MaxCalls
          /\ eng' = [items |-> [i \in 1..Len(eng.items) |-> item(eng.items[i].path)],
                     s1 |-> s1b,
                     run1 |-> [j \in EKeys |->
                         IF j \in dirty THEN eng.run1[j] \cup {s1b[j].gen}
                         ELSE eng.run1[j]],
                     s2 |-> s2b,
                     run2 |-> [j \in EKeys |->
                         IF j \in inv2 THEN eng.run2[j] \cup {s2b[j].gen}
                         ELSE eng.run2[j]],
                     call |-> [key |-> "none", same |-> FALSE],
                     invoked |-> {<<1, j>> : j \in dirty}
                                 \cup {<<2, j>> : j \in inv2},
                     ran |-> (ChangedTasks(eng.s2, s2b) # {}),
                     handlers |-> EngMatch(s2b),
                     calls |-> eng.calls + 1,
                     runs |-> EffectRunsInPass(ChangedTasks(eng.s2, s2b)),
                     pending |-> eng.pending + 2 * Cardinality(dirty)
                                 - Cardinality(errs)]
          /\ UNCHANGED <<PipelineVars, fcall>>

EngineNext ==
    \/ update
    \/ updateBatch
    \/ settleFirst
    \/ settleSecond

(***************************************************************************)
(* Pure functions.  Sequences stand for arrays; a 0-based array index i is *)
(* position i + 1 of the sequence.                                         *)
(***************************************************************************)
MaxPages == 3
MaxNav == 3

\* Sequences over S of length at most n, and those without repetition.
SeqsUpTo(S, n) == UNION {[1..m -> S] : m \in 0..n}
NoDup(s) == \A i, j \in 1..Len(s) : s[i] = s[j] => i = j

\* array.includes(x); array.indexOf(x), -1 when absent.
Includes(s, x) == \E i \in 1..Len(s) : s[i] = x
IndexOf(s, x) ==
    IF Includes(s, x)
    THEN (CHOOSE i \in 1..Len(s) : s[i] = x /\ \A j \in 1..(i - 1) : s[j] # x) - 1
    ELSE -1

\* array.splice(pos, 0, x) for pos >= 0: x is inserted before index pos, or
\* appended when pos is beyond the end.
Splice(s, pos, x) ==
    IF pos >= Len(s) THEN Append(s, x)
    ELSE SubSeq(s, 1, pos) \o <<x>> \o SubSeq(s, pos + 1, Len(s))

\* Page slugs: "" is the slug of index.md; the slugs that are "api" or
\* start with "api/" are the API pages.
RegularSlugs == {"", "a", "b"}
ApiSlugs == {"api", "api/f"}
IsApiSlug(slug) == slug \in ApiSlugs
\* What the API section is rendered to, as one entry of the nav's lines.
ApiSection == "API Reference"

\* The index the API section is spliced in at: navOrder.indexOf("api").
ApiIndex(regularPages, navOrder) == IndexOf(navOrder, "api")

\* generateNavHtml(pages, navOrder, baseUrl): the entries of the <ul>, in
\* order, each regular page standing for its <li> and ApiSection for the
\* API group.
generateNavHtml(pages, navOrder) ==
    LET regularPages == SelectSeq(pages, LAMBDA p : ~IsApiSlug(p))
        apiPages == SelectSeq(pages, IsApiSlug)
        Matches(p, name) == p = name \/ (name = "index" /\ p = "")
        Found(name) == \E i \in 1..Len(regularPages) : Matches(regularPages[i], name)
        Find(name) == regularPages[CHOOSE i \in 1..Len(regularPages) :
                          /\ Matches(regularPages[i], name)
                          /\ \A j \in 1..(i - 1) : ~Matches(regularPages[j], name)]
        names == SelectSeq(SelectSeq(navOrder, LAMBDA n : n # "api"), Found)
        ordered == [i \in 1..Len(names) |-> Find(names[i])]
        remaining == SelectSeq(regularPages, LAMBDA p :
                        /\ ~Includes(navOrder, p)
                        /\ ~Includes(navOrder, IF p = "" THEN "index" ELSE p))
        lines == ordered \o remaining
        apiPosition == ApiIndex(regularPages, navOrder)
    IN  IF Len(apiPages) > 0
        THEN IF apiPosition >= 0
             THEN Splice(lines, apiPosition, ApiSection)
             ELSE Append(lines, ApiSection)
        ELSE lines

\* Schema files (<name>.markdoc.ts) in the order glob.scan yields them.
\* Importing a file gives a default export ("ok"), a module without one
\* ("nodefault"), or throws ("throws").
MaxFiles == 2
SchemaNames == {"callout", "tabs", "heading"}
NODE_NAMES ==
    {"document", "heading", "paragraph", "fence", "blockquote", "list",
     "item", "table", "thead", "tbody", "tr", "th", "td", "hr", "image",
     "link", "em", "strong", "code", "text", "s", "hardbreak", "softbreak",
     "inline"}
Loads == {"ok", "nodefault", "throws"}

\* A directory: whether it exists, and its schema files in scan order.
MissingDir == [exists |-> FALSE, files |-> <<>>]
DirsOf(loads) ==
    {MissingDir} \cup
    {[exists |-> TRUE, files |-> fs2] :
        fs2 \in {s \in SeqsUpTo([name : SchemaNames, load : loads], MaxFiles) :
                   \A i, j \in 1..Len(s) : s[i].name = s[j].name => i = j}}

\* The loop of loadSchemasFromDir over files i..Len(files), schemas being
\* the record built so far; a throwing import leaves the loop through the
\* catch around it.
RECURSIVE LoadFrom(_, _, _, _)
LoadFrom(files, i, origin, schemas) ==
    IF i > Len(files) THEN schemas
    ELSE IF files[i].load = "throws" THEN schemas
    ELSE IF files[i].load = "ok"
         THEN LoadFrom(files, i + 1, origin,
                [n \in DOMAIN schemas \cup {files[i].name} |->
                    IF n = files[i].name
                    THEN [from |-> origin, name |-> n]
                    ELSE schemas[n]])
    ELSE LoadFrom(files, i + 1, origin, schemas)

\* loadSchemasFromDir(dir): name -> schema; a missing directory makes
\* glob.scan throw, which the same catch turns into no schemas.
loadSchemasFromDir(dir, origin) ==
    IF dir.exists THEN LoadFrom(dir.files, 1, origin, <<>>) ELSE <<>>

\* { ...builtinSchemas, ...userSchemas }
merge(builtinSchemas, userSchemas) ==
    [n \in DOMAIN builtinSchemas \cup DOMAIN userSchemas |->
        IF n \in DOMAIN userSchemas THEN userSchemas[n] ELSE builtinSchemas[n]]

\* resolveSchemas(builtinDir, userDir)
resolveSchemas(builtinDir, userDir) ==
    LET merged == merge(loadSchemasFromDir(builtinDir, "builtin"),
                        loadSchemasFromDir(userDir, "user"))
    IN  [nodes |-> [n \in DOMAIN merged \cap NODE_NAMES |-> merged[n]],
         tags |-> [n \in DOMAIN merged \ NODE_NAMES |-> merged[n]]]

\* Paths are sequences of tokens: "/" the separator, ".md" the extension,
\* the other tokens pieces of names.
MaxDepth == 2

\* s starts with pat at position i.
MatchAt(s, pat, i) ==
    /\ i + Len(pat) - 1 <= Len(s)
    /\ \A j \in 1..Len(pat) : s[i + j - 1] = pat[j]

\* String.prototype.replace(pat, '') with a string pattern: the first
\* occurrence of pat is removed.
RemoveFirst(s, pat) ==
    IF \E i \in 1..Len(s) : MatchAt(s, pat, i)
    THEN LET i == CHOOSE i \in 1..Len(s) :
                     MatchAt(s, pat, i) /\ \A j \in 1..(i - 1) : ~MatchAt(s, pat, j)
         IN  SubSeq(s, 1, i - 1) \o SubSeq(s, i + Len(pat), Len(s))
    ELSE s

\* replace(/^\//, '') and replace(/\.md$/, '')
StripLeadingSlash(s) == IF Len(s) > 0 /\ s[1] = "/" THEN Tail(s) ELSE s
StripMd(s) == IF Len(s) > 0 /\ s[Len(s)] = ".md" THEN SubSeq(s, 1, Len(s) - 1) ELSE s

\* String.prototype.endsWith
EndsWith(s, suffix) ==
    Len(suffix) <= Len(s) /\ MatchAt(s, suffix, Len(s) - Len(suffix) + 1)

\* Mutant: only the root index.md maps to the directory root.
filePathToSlugRootIndexOnly(filePath, srcDir) ==
    LET slug == StripMd(StripLeadingSlash(RemoveFirst(filePath, srcDir)))
    IN  IF slug = <<"index">> THEN <<>> ELSE slug

\* filePathToSlug(filePath, srcDir)
filePathToSlug(filePath, srcDir) ==
    LET slug == StripMd(StripLeadingSlash(RemoveFirst(filePath, srcDir)))
    IN  IF slug = <<"index">> THEN <<>>
        ELSE IF EndsWith(slug, <<"/", "index">>)
             THEN SubSeq(slug, 1, Len(slug) - 2)
             ELSE slug

\* path.join of segments that are not empty: the segments with "/" between.
RECURSIVE Join(_)
Join(segs) ==
    IF Len(segs) = 0 THEN <<>>
    ELSE IF Len(segs) = 1 THEN segs[1]
    ELSE segs[1] \o <<"/">> \o Join(Tail(segs))

\* pageDataToOutPath(page, outDir); path.join drops an empty segment.
pageDataToOutPath(slug, outDir) ==
    IF slug = <<>> THEN Join(<<outDir, <<"index.html">>>>)
    ELSE Join(<<outDir, slug, <<"index.html">>>>)

(***************************************************************************)
(* Initial state: the process has loaded its config and is about to call   *)
(* createPipeline.                                                         *)
(***************************************************************************)
NoTask == [st |-> "None", gen |-> 0, of |-> 0]
NoRun == [threw |-> FALSE, handlers |-> {}, pages |-> <<>>]

\* Every markdown file is on disk, with content that renders.
FullDisk == [k \in Keys |-> [hash |-> 1, mtime |-> 0]]
\* Every directory the lists are created over exists.
AllDirs == [i \in 1..Len(Lists) |-> TRUE]

\* No pure function is being called.
NoCall == [fn |-> "none"]

\* The state in which createPipeline is called, given the files and the
\* directories on disk, and the pure-function call under way.
StartAll(disk, dirs, c, throws) ==
    /\ fcall = c
    /\ bundle = [throws |-> throws, result |-> "none"]
    /\ watch \in BOOLEAN
    /\ created = 0
    /\ pc = "create"
    /\ dirOnDisk = dirs
    /\ fs = disk
    /\ events = {}
    /\ cbs = {}
    /\ watcher = [i \in 1..Len(Lists) |-> "none"]
    /\ mdFiles = <<>>
    /\ derived = [k \in Keys |-> NoItem]
    /\ recomputed = {}
    /\ task = [t \in Tasks |-> NoTask]
    /\ running = [t \in Tasks |-> {}]
    /\ config = [f \in Fields |-> 0]
    /\ effectLive = FALSE
    /\ effectDeps = {}
    /\ lastRun = NoRun
    /\ effectRan = FALSE
    /\ batches = <<>>
    /\ out = [p \in PageKeys |-> 0]
    /\ buildResolved = FALSE
    /\ initialBuildDone = FALSE
    /\ notified = FALSE
    /\ suppressed = FALSE
    /\ burst = 0
    /\ ops = 0
    /\ eng = EngInit

\* A project whose components bundle.
StartWith(disk, dirs, c) == StartAll(disk, dirs, c, FALSE)

Start(disk, dirs) == StartWith(disk, dirs, NoCall)

\* a.md is not there when the pipeline is created.
SparseDisk == [FullDisk EXCEPT !["a"] = NoFile]
\* srcDir/assets does not exist when the pipeline is created.
SparseDirs == [AllDirs EXCEPT ![3] = FALSE]

Init == Start(FullDisk, AllDirs)

ListIndex(l) == CHOOSE i \in 1..Len(Lists) : Lists[i] = l

\* The step ran no transform, no Effect and no notification.
Quiet ==
    /\ recomputed' = {}
    /\ EffectIdle
    /\ notified' = FALSE
    /\ suppressed' = FALSE
    /\ burst' = 0

\* Scan of the initial files: those on disk, in scan order.
initialFiles ==
    LET present == SelectSeq(ScanOrder, LAMBDA k : fs[k] # NoFile)
    IN  [i \in 1..Len(present) |->
            [path |-> present[i], hash |-> fs[present[i]].hash,
             lastModified |-> fs[present[i]].mtime]]

\* Mutant: no watcher is started by createFileList.
startWatcherNever(watchEnabled, dirExists) == "none"

\* Mutant: fs.watch is started whether or not the directory exists.
startWatcherWithoutDirCheck(watchEnabled, dirExists) ==
    IF watchEnabled THEN "active" ELSE "none"

\* The watcher of a list as createFileList leaves it: fs.watch is started
\* eagerly when watch mode is enabled and the directory exists.
startWatcher(watchEnabled, dirExists) ==
    IF watchEnabled /\ dirExists THEN "active" ELSE "none"

\* createFileList(directory, include, exclude, {watch}): scans the initial
\* files, creates the list and, in watch mode, starts fs.watch at once.
\* fs.watch may throw (no watch descriptors left, the directory gone since
\* existsSync); nothing catches it, so createPipeline rejects and the
\* process ends.
createFileList ==
    \E watchThrows \in BOOLEAN :
        LET i == created + 1
            started == startWatcher(watch, dirOnDisk[i])
        IN  /\ pc = "create"
            /\ created < Len(Lists)
            /\ watchThrows => started = "active"
            /\ IF watchThrows
               THEN /\ pc' = "crashed"
                    /\ UNCHANGED <<created, watcher, mdFiles>>
               ELSE /\ created' = i
                    /\ watcher' = [watcher EXCEPT ![i] = started]
                    /\ mdFiles' = IF Lists[i] = "mdFiles" /\ dirOnDisk[i]
                                  THEN initialFiles
                                  ELSE mdFiles
                    /\ UNCHANGED pc
            /\ Quiet
            /\ UNCHANGED <<eng, fcall, bundle, dirOnDisk, watch, fs, events, cbs, derived,
                           task, running, config, effectLive, out,
                           initialBuildDone, ops>>

\* createPipeline after its lists: the Tasks, the derived collection and
\* the write Effect, which runs once as it is created.
createPipeline ==
    /\ pc = "create"
    /\ created = Len(Lists)
    /\ pc' = "running"
    /\ LET tk2 == [t \in Tasks |-> createTask]
           der2 == deriveCollection(derived, <<>>, mdFiles, {})
       IN  /\ task' = tk2
           /\ running' = [t \in Tasks |-> {1}]
           /\ derived' = der2
           /\ recomputed' = Invalidated(<<>>, mdFiles, {})
           /\ EffectRuns(mdFiles, der2, tk2)
    /\ effectLive' = TRUE
    /\ notified' = FALSE
    /\ suppressed' = FALSE
    /\ burst' = 0
    /\ UNCHANGED <<eng, fcall, bundle, dirOnDisk, watch, created, fs, events, cbs, watcher, mdFiles, config,
                   out, initialBuildDone, ops>>

(***************************************************************************)
(* The environment: the files under srcDir change                          *)
(***************************************************************************)
MdWatched == watcher[ListIndex("mdFiles")] = "active"

FsEvent(k, h) ==
    /\ MdWatched
    /\ pc # "crashed"
    /\ ops < MaxOps
    /\ Len(batches) < MaxBatches
    /\ ops' = ops + 1
    /\ fs' = [fs EXCEPT ![k] = IF h = 0 THEN NoFile
                                ELSE [hash |-> h, mtime |-> ops + 1]]
    /\ events' = events \cup {k}
    /\ Quiet
    /\ UNCHANGED <<eng, fcall, bundle, dirOnDisk, watch, created, pc, cbs, watcher, mdFiles, derived, task,
                   running, config, effectLive, out, initialBuildDone>>

\* A file is written with new content, or created.
FsWrite == \E k \in Keys, h \in 1..MaxHash : h # fs[k].hash /\ FsEvent(k, h)

\* A file is deleted.
FsRemove == \E k \in Keys : fs[k] # NoFile /\ FsEvent(k, 0)

\* A file's metadata changes (mtime), its content does not.
FsTouch == \E k \in Keys : fs[k] # NoFile /\ FsEvent(k, fs[k].hash)

(***************************************************************************)
(* The watch callback of createFileList                                    *)
(***************************************************************************)
\* The list goes from mdFiles to list2 with the items in dirty changed;
\* the derivation and the Effect follow in the same propagation pass.
ListChanged(list2, dirty) ==
    /\ mdFiles' = list2
    /\ IF pc = "create"
       THEN /\ Quiet
            /\ UNCHANGED derived
       ELSE LET der2 == deriveCollection(derived, mdFiles, list2, dirty)
            IN  /\ derived' = der2
                /\ recomputed' = Invalidated(mdFiles, list2, dirty)
                /\ Propagate(DerivedChanged(derived, der2), list2, der2, task)
                /\ notified' = FALSE
                /\ suppressed' = FALSE
                /\ burst' = 0

\* The callback's synchronous part: a missing file is removed from the
\* list, otherwise getFileInfo starts reading.
watchCallback ==
    \E k \in events :
        /\ MdWatched
        /\ pc # "crashed"
        /\ Len(batches) < MaxBatches
        /\ events' = events \ {k}
        /\ IF fs[k] = NoFile
           THEN /\ ListChanged(ListRemove(mdFiles, k), {})
                /\ UNCHANGED cbs
           ELSE /\ cbs' = cbs \cup {[path |-> k, hash |-> 0]}
                /\ Quiet
                /\ UNCHANGED <<mdFiles, derived>>
        /\ UNCHANGED <<eng, fcall, bundle, dirOnDisk, watch, created, pc, fs, watcher, task, running, config,
                       effectLive, out, initialBuildDone, ops>>

\* getFileInfo: Bun.file(filePath).text() completes; a file deleted
\* meanwhile rejects, which ends the callback.
getFileInfoRead ==
    \E cb \in cbs :
        /\ pc # "crashed"
        /\ cb.hash = 0
        /\ cbs' = IF fs[cb.path] = NoFile THEN cbs \ {cb}
                  ELSE (cbs \ {cb})
                       \cup {[path |-> cb.path, hash |-> fs[cb.path].hash]}
        /\ Quiet
        /\ UNCHANGED <<eng, fcall, bundle, dirOnDisk, watch, created, pc, fs, events, watcher, mdFiles,
                       derived, task, running, config, effectLive, out,
                       initialBuildDone, ops>>

\* Mutant: the callback sets an existing item without comparing hashes.
callbackUpdateNoHashCheck(list, fileInfo) ==
    IF byKey(list, fileInfo.path) # 0
    THEN [list |-> ListSet(list, fileInfo.path, fileInfo),
          dirty |-> SetDirty(list, fileInfo.path, fileInfo),
          op |-> "set"]
    ELSE [list |-> ListAdd(list, fileInfo), dirty |-> {}, op |-> "add"]

\* Mutant: the callback adds the file it read without looking it up.
callbackUpdateAddUnchecked(list, fileInfo) ==
    [list |-> ListAdd(list, fileInfo), dirty |-> {}, op |-> "add"]

\* What the callback does with the file it read: set an existing item
\* whose hash differs, add a missing one.
callbackUpdate(list, fileInfo) ==
    IF byKey(list, fileInfo.path) # 0
    THEN IF ItemOf(list, fileInfo.path).hash # fileInfo.hash
         THEN [list |-> ListSet(list, fileInfo.path, fileInfo),
               dirty |-> SetDirty(list, fileInfo.path, fileInfo),
               op |-> "set"]
         ELSE [list |-> list, dirty |-> {}, op |-> "skip"]
    ELSE [list |-> ListAdd(list, fileInfo), dirty |-> {}, op |-> "add"]

\* getFileInfo: stat() completes and the callback resumes after its await.
watchCallbackResume ==
    \E cb \in cbs :
        /\ pc # "crashed"
        /\ cb.hash # 0
        /\ Len(batches) < MaxBatches
        /\ cbs' = cbs \ {cb}
        /\ IF fs[cb.path] = NoFile
           THEN /\ Quiet
                /\ UNCHANGED <<mdFiles, derived>>
           ELSE LET fileInfo == [path |-> cb.path, hash |-> cb.hash,
                                 lastModified |-> fs[cb.path].mtime]
                    u == callbackUpdate(mdFiles, fileInfo)
                IN  ListChanged(u.list, u.dirty)
        /\ UNCHANGED <<eng, fcall, bundle, dirOnDisk, watch, created, pc, fs, events, watcher, task, running,
                       config, effectLive, out, initialBuildDone, ops>>

(***************************************************************************)
(* The other lists, Task completions, page writes, the config Store        *)
(***************************************************************************)
\* The watch callback of componentFiles, assetFiles or tsFiles changed its
\* list (a set, an add or a remove): the Task that read the list is
\* invalidated and its body invoked as a new generation.
sourceChanged ==
    \E t \in Tasks :
        /\ pc = "running"
        /\ TaskSource(t) # "none"
        /\ watcher[ListIndex(TaskSource(t))] = "active"
        /\ ops < MaxOps
        /\ task[t].gen < MaxGen
        /\ Len(batches) < MaxBatches
        /\ ops' = ops + 1
        /\ LET tk2 == [task EXCEPT ![t] = Invalidate(task[t])]
           IN  /\ task' = tk2
               /\ running' = [running EXCEPT ![t] = @ \cup {tk2[t].gen}]
               /\ Propagate(IF task[t].st # "Pending" THEN {t} ELSE {},
                            mdFiles, derived, tk2)
        /\ recomputed' = {}
        /\ notified' = FALSE
        /\ suppressed' = FALSE
        /\ burst' = IF t = "typedocTask" THEN burst + 1 ELSE 0
        /\ UNCHANGED <<eng, fcall, bundle, dirOnDisk, watch, created, pc, fs, events, cbs, watcher, mdFiles,
                       derived, config, effectLive, out, initialBuildDone>>

\* The async body of generation g of Task t completes.
taskComplete ==
    \E t \in Tasks : \E g \in running[t], o \in Outcomes(t) :
        /\ Len(batches) < MaxBatches
        /\ running' = [running EXCEPT ![t] = @ \ {g}]
        /\ LET tk2 == [task EXCEPT ![t] = Settle(task[t], g, o)]
           IN  /\ task' = tk2
               /\ Propagate(IF tk2[t] # task[t] THEN {t} ELSE {},
                            mdFiles, derived, tk2)
        /\ bundle' = IF t = "bundleTask" /\ g = task[t].gen /\ o = "Ok"
                     THEN [bundle EXCEPT !.result = BundleResult(bundle.throws)]
                     ELSE bundle
        /\ suppressed' = (g # task[t].gen)
        /\ burst' = 0
        /\ recomputed' = {}
        /\ notified' = FALSE
        /\ UNCHANGED <<eng, fcall, dirOnDisk, watch, created, pc, fs, events, cbs, watcher, mdFiles,
                       derived, config, effectLive, out, initialBuildDone,
                       ops>>

\* Mutant: when a batch's last write has completed, the output files of the
\* pages that are no longer in the collection are deleted.
writeDonePruningOutDir ==
    \E i \in 1..Len(batches) :
      LET p == Head(batches[i].todo) IN
        /\ IF Len(batches[i].todo) = 1
           THEN /\ out' = [q \in PageKeys |->
                             IF q \in Keys \ ListKeys(mdFiles) THEN 0
                             ELSE IF q = p THEN batches[i].content[p]
                             ELSE out[q]]
                /\ batches' = [j \in 1..(Len(batches) - 1) |->
                                  IF j < i THEN batches[j] ELSE batches[j + 1]]
                /\ buildResolved' = TRUE
                /\ notified' = (initialBuildDone /\ watch)
                /\ suppressed' = FALSE
                /\ burst' = 0
                /\ initialBuildDone' = TRUE
           ELSE /\ out' = [out EXCEPT ![p] = batches[i].content[p]]
                /\ batches' = [batches EXCEPT ![i].todo = Tail(@)]
                /\ notified' = FALSE
                /\ suppressed' = FALSE
                /\ burst' = 0
                /\ UNCHANGED <<buildResolved, initialBuildDone>>
        /\ recomputed' = {}
        /\ effectRan' = FALSE
        /\ UNCHANGED <<eng, fcall, bundle, dirOnDisk, watch, created, pc, fs, events, cbs, watcher, mdFiles,
                       derived, task, running, config, effectLive, effectDeps,
                       lastRun, ops>>

\* One page write of batch i completes (the writes of one batch complete in
\* the order they were started, those of different batches in any order);
\* after the batch's last write the Promise.all callback resolves the build
\* and, after the initial build, notifies.
writeDone ==
    \E i \in 1..Len(batches) :
      LET p == Head(batches[i].todo) IN
        /\ out' = [out EXCEPT ![p] = batches[i].content[p]]
        /\ IF Len(batches[i].todo) = 1
           THEN /\ batches' = [j \in 1..(Len(batches) - 1) |->
                                  IF j < i THEN batches[j] ELSE batches[j + 1]]
                /\ buildResolved' = TRUE
                /\ notified' = (initialBuildDone /\ watch)
                /\ suppressed' = FALSE
                /\ burst' = 0
                /\ initialBuildDone' = TRUE
           ELSE /\ batches' = [batches EXCEPT ![i].todo = Tail(@)]
                /\ notified' = FALSE
                /\ suppressed' = FALSE
                /\ burst' = 0
                /\ UNCHANGED <<buildResolved, initialBuildDone>>
        /\ recomputed' = {}
        /\ effectRan' = FALSE
        /\ UNCHANGED <<eng, fcall, bundle, dirOnDisk, watch, created, pc, fs, events, cbs, watcher, mdFiles,
                       derived, task, running, config, effectLive, effectDeps,
                       lastRun, ops>>

\* The owner of the config Store sets one of its fields.
configSet ==
    \E f \in Fields, v \in 0..1 :
        /\ pc = "running"
        /\ ops < MaxOps
        /\ Len(batches) < MaxBatches
        /\ ops' = ops + 1
        /\ config' = [config EXCEPT ![f] = v]
        /\ Propagate(IF config[f] # v THEN {f} ELSE {}, mdFiles, derived, task)
        /\ recomputed' = {}
        /\ notified' = FALSE
        /\ suppressed' = FALSE
        /\ burst' = 0
        /\ UNCHANGED <<eng, fcall, bundle, dirOnDisk, watch, created, pc, fs, events, cbs, watcher, mdFiles,
                       derived, task, running, effectLive, out,
                       initialBuildDone>>

\* Mutant: closeWatcher() leaves the watcher running.
closeWatcherNoop(w) == w

\* list.closeWatcher(): watcher?.close().
closeWatcher(w) == IF w = "active" THEN "closed" ELSE w

\* pipeline.dispose(), called once build() has resolved: the write Effect
\* is disposed and every watcher closed.
dispose ==
    /\ pc = "running"
    /\ buildResolved
    /\ pc' = "disposed"
    /\ effectLive' = FALSE
    /\ effectDeps' = {}
    /\ watcher' = [i \in 1..Len(Lists) |-> closeWatcher(watcher[i])]
    /\ events' = {}
    /\ recomputed' = {}
    /\ effectRan' = FALSE
    /\ notified' = FALSE
    /\ suppressed' = FALSE
    /\ burst' = 0
    /\ UNCHANGED <<eng, fcall, bundle, dirOnDisk, watch, created, fs, cbs, mdFiles, derived, task, running,
                   config, lastRun, batches, out, buildResolved,
                   initialBuildDone, ops>>

Next ==
    \/ createFileList
    \/ createPipeline
    \/ FsWrite
    \/ FsRemove
    \/ FsTouch
    \/ watchCallback
    \/ getFileInfoRead
    \/ watchCallbackResume
    \/ sourceChanged
    \/ taskComplete
    \/ writeDone
    \/ configSet
    \/ dispose

Spec == Init /\ [][Next]_vars

\* The pipeline created over a project without a.md and without an assets
\* directory.
InitSparse == Start(SparseDisk, SparseDirs)

SparseSpec == InitSparse /\ [][Next]_vars

\* One-shot mode (docs-server build): no watcher is started, so the only
\* steps are the creation, the Task bodies' completions, the page writes
\* and dispose().  a.md either renders or makes its transform throw.
InitBuild ==
    /\ \E h \in 1..MaxHash :
          Start([FullDisk EXCEPT !["a"].hash = h], AllDirs)
    /\ ~watch

BuildNext ==
    \/ createFileList
    \/ createPipeline
    \/ taskComplete
    \/ writeDone
    \/ dispose

\* Every started body and every started write completes, and the command
\* goes on as soon as it can.
BuildSpec == InitBuild /\ [][BuildNext]_vars /\ WF_vars(BuildNext)

\* Dev mode (`docs-server dev`, bin/docs-server.ts 30-56): the watch flag is
\* set, source files change while the pipeline runs, and the event loop
\* eventually runs every settled promise continuation.
InitDev == Start(FullDisk, AllDirs) /\ watch

DevNext == createFileList \/ createPipeline \/ sourceChanged \/ taskComplete \/ writeDone

DevSpec ==
    /\ InitDev
    /\ [][DevNext]_vars
    /\ WF_vars(createFileList \/ createPipeline \/ taskComplete \/ writeDone)

\* Dev mode over a project whose components may fail to bundle (main.ts or
\* main.css does not build, bundler.ts 52-57).
InitBundle ==
    /\ \E th \in BOOLEAN : StartAll(FullDisk, AllDirs, NoCall, th)
    /\ watch

BundleSpec == InitBundle /\ [][DevNext]_vars

\* The engine driven directly, the pipeline left as constructed.
EngineSpec == Init /\ [][EngineNext]_vars

(***************************************************************************)
(* The pure functions called on their own, on every input within the       *)
(* bounds.                                                                 *)
(***************************************************************************)
\* The names a nav array is made of: pages, the API section, and "x", the
\* name of no page.
NavNames == {"index", "a", "b", "x", "api"}

NavCalls ==
    {[fn |-> "generateNavHtml", pages |-> ps, navOrder |-> nav,
      returned |-> FALSE, result |-> <<>>] :
        ps \in {s \in SeqsUpTo(RegularSlugs \cup {"api/f"}, MaxPages) : NoDup(s)},
        nav \in SeqsUpTo(NavNames, MaxNav)}

InitNav == \E c \in NavCalls : StartWith(FullDisk, AllDirs, c)

callGenerateNavHtml ==
    /\ fcall.fn = "generateNavHtml"
    /\ ~fcall.returned
    /\ fcall' = [fcall EXCEPT !.returned = TRUE,
                              !.result = generateNavHtml(fcall.pages, fcall.navOrder)]
    /\ UNCHANGED <<PipelineVars, eng>>

NavSpec == InitNav /\ [][callGenerateNavHtml]_vars

\* The built-in directory is the package's own src/schemas, whose files
\* all import; the user directory is any directory.
SchemaCalls ==
    {[fn |-> "resolveSchemas", builtinDir |-> b, userDir |-> u,
      returned |-> FALSE, result |-> <<>>] :
        b \in DirsOf({"ok"}) \ {MissingDir}, u \in DirsOf(Loads)}

InitSchemas == \E c \in SchemaCalls : StartWith(FullDisk, AllDirs, c)

callResolveSchemas ==
    /\ fcall.fn = "resolveSchemas"
    /\ ~fcall.returned
    /\ fcall' = [fcall EXCEPT !.returned = TRUE,
                              !.result = resolveSchemas(fcall.builtinDir, fcall.userDir)]
    /\ UNCHANGED <<PipelineVars, eng>>

SchemaSpec == InitSchemas /\ [][callResolveSchemas]_vars

\* Markdown files under srcDir: the directories below srcDir and the base
\* name of the file, each a name of one or two pieces.
DirNames == {<<"x">>, <<"y">>, <<"index">>}
BaseNames == {<<"x">>, <<"y">>, <<"index">>, <<"x", "index">>}
SrcDirs == {<<"/", "s">>, <<"/", "s", "/", "x">>}
OutDir == <<"/", "o">>

\* join(directory, file) of createFileList: the path of the file.
FilePath(srcDir, dirs, base) == Join(<<srcDir>> \o dirs \o <<base \o <<".md">>>>)

RouteCalls ==
    {[fn |-> "route", srcDir |-> sd, dirs |-> ds, base |-> b,
      returned |-> FALSE, result |-> <<>>] :
        sd \in SrcDirs, ds \in SeqsUpTo(DirNames, MaxDepth), b \in BaseNames}

InitRoute == \E c \in RouteCalls : StartWith(FullDisk, AllDirs, c)

\* processMarkdoc computes the slug of the file and the write Effect the
\* output path of its page.
callRoute ==
    /\ fcall.fn = "route"
    /\ ~fcall.returned
    /\ fcall' = [fcall EXCEPT
                   !.returned = TRUE,
                   !.result = pageDataToOutPath(
                                filePathToSlug(FilePath(fcall.srcDir, fcall.dirs, fcall.base),
                                               fcall.srcDir),
                                OutDir)]
    /\ UNCHANGED <<PipelineVars, eng>>

RouteSpec == InitRoute /\ [][callRoute]_vars

\* Two markdown files of one site, routed in the same run of the write
\* Effect.
RoutePairCalls ==
    {[fn |-> "routePair", srcDir |-> sd,
      first |-> f1, second |-> f2,
      returned |-> FALSE, result |-> <<>>] :
        sd \in SrcDirs,
        f1 \in [dirs : SeqsUpTo(DirNames, MaxDepth), base : BaseNames],
        f2 \in [dirs : SeqsUpTo(DirNames, MaxDepth), base : BaseNames]}

InitRoutePair == \E c \in RoutePairCalls : StartWith(FullDisk, AllDirs, c)

\* The out path of the page of file f under srcDir.
OutPathOf(srcDir, f) ==
    pageDataToOutPath(filePathToSlug(FilePath(srcDir, f.dirs, f.base), srcDir), OutDir)

callRoutePair ==
    /\ fcall.fn = "routePair"
    /\ ~fcall.returned
    /\ fcall' = [fcall EXCEPT
                   !.returned = TRUE,
                   !.result = <<OutPathOf(fcall.srcDir, fcall.first),
                                OutPathOf(fcall.srcDir, fcall.second)>>]
    /\ UNCHANGED <<PipelineVars, eng>>

RoutePairSpec == InitRoutePair /\ [][callRoutePair]_vars

(***************************************************************************)
(* Claims                                                                  *)
(***************************************************************************)
\* The step updates the source item of k and nothing else of a list that
\* holds all three keys before and after.
UpdatedOnly(k) ==
    /\ pc # "create"
    /\ ListKeys(mdFiles) = Keys
    /\ [i \in 1..Len(mdFiles) |-> mdFiles[i].path]
         = [i \in 1..Len(mdFiles') |-> mdFiles'[i].path]
    /\ ItemOf(mdFiles', k) # ItemOf(mdFiles, k)
    /\ \A j \in Keys \ {k} : ItemOf(mdFiles', j) = ItemOf(mdFiles, j)

\* C1: in the derivation over {a, b, c}, a step that updates only one
\* key's source item invokes the transform of that key and of no other, and
\* leaves the derived items of the other keys as they were.
C1_PerKeyLocality ==
    [][\A k \in Keys :
         UpdatedOnly(k) =>
            /\ recomputed' = {k}
            /\ \A j \in Keys \ {k} : derived'[j] = derived[j]]_vars

\* C1 witness: b, still at its place between a and c, was updated to new
\* content and the step recomputed b alone.
C1_Witness ==
    /\ pc = "running"
    /\ Len(mdFiles) = 3
    /\ mdFiles[2].path = "b"
    /\ mdFiles[2].hash = 2
    /\ derived["b"] = [st |-> "Ok", hash |-> 2]
    /\ recomputed = {"b"}
    /\ effectRan

\* C2: a Task's visible Ok or Err is the result of its latest generation,
\* and the completion of an older generation's body leaves the Task's
\* visible state as it was.
C2_StaleSuppressed ==
    [][\A t \in Tasks :
         /\ task'[t].st \in {"Ok", "Err"} => task'[t].of = task'[t].gen
         /\ \A g \in running[t] \ running'[t] :
               g < task[t].gen => task'[t] = task[t]]_vars

\* C2 witness: generation 1 of bundleTask has just completed after
\* generation 2 had settled, and the Task shows generation 2's result.
C2_Witness ==
    /\ suppressed
    /\ task["bundleTask"] = [st |-> "Ok", gen |-> 2, of |-> 2]
    /\ running["bundleTask"] = {}

\* C3 (as claimed): the build promise is never resolved in a step that
\* leaves some Task Pending.
C3_ResolvesOnlyQuiescent ==
    [][(~buildResolved /\ buildResolved') =>
          \A t \in Tasks : task'[t].st # "Pending"]_vars

\* C4 (as claimed): when the write Effect runs with every given Task Ok
\* and the derived item of some key Err, the write of every key whose
\* item is Ok is started in that run.
C4_SiblingsWritten ==
    [][(/\ effectRan'
        /\ \A t \in Tasks : task'[t].st = "Ok"
        /\ \E k \in Keys : derived'[k].st = "Err") =>
          \A j \in Keys : derived'[j].st = "Ok" =>
              \E i \in 1..Len(lastRun'.pages) : lastRun'.pages[i] = j]_vars

C6_FieldIsolation ==
    [][\A f \in Fields :
         config'[f] # config[f] =>
            /\ f \notin effectDeps => ~effectRan'
            /\ (f \in effectDeps /\ effectLive) => effectRan']_vars

\* C6 witness: after a run that read title, baseUrl and nav only, srcDir
\* was written and the Effect did not run.
C6_Witness ==
    /\ pc = "running"
    /\ ConfigReads \subseteq effectDeps
    /\ config["srcDir"] = 1
    /\ config["title"] = 0
    /\ ops = 1
    /\ ~effectRan

\* C8: the watch callback changes an existing item of the list only when
\* the hash of the file it read differs from the item's; a file read with
\* an equal hash leaves the list as it was.
C8_HashSuppression ==
    [][\A k \in ListKeys(mdFiles) \cap ListKeys(mdFiles') :
         ItemOf(mdFiles', k) # ItemOf(mdFiles, k) =>
            ItemOf(mdFiles', k).hash # ItemOf(mdFiles, k).hash]_vars

\* C8 witness: a file was touched (new mtime, same hash), its event was
\* delivered and its callback has finished, and the item is the old one.
C8_Witness ==
    \E k \in ListKeys(mdFiles) :
        /\ MdWatched
        /\ fs[k].mtime > ItemOf(mdFiles, k).lastModified
        /\ fs[k].hash = ItemOf(mdFiles, k).hash
        /\ events = {}
        /\ cbs = {}
        /\ ops = 1

\* C9: a run of the write Effect that reaches match invokes exactly one
\* handler: ok iff all four Tasks are Ok, err iff one is Err, nil iff none
\* is Err and one is Pending.
C9_MatchDispatch ==
    [][(effectRan' /\ ~lastRun'.threw) =>
          LET hs == lastRun'.handlers
              allOk == \A t \in Tasks : task'[t].st = "Ok"
              anyErr == \E t \in Tasks : task'[t].st = "Err"
          IN  /\ Cardinality(hs) = 1
              /\ "ok" \in hs <=> allOk
              /\ "err" \in hs <=> anyErr
              /\ "nil" \in hs <=> (~anyErr /\ ~allOk)]_vars

\* C9 witness: a run took the err handler while another Task was Pending.
C9_Witness ==
    /\ effectRan
    /\ lastRun.handlers = {"err"}
    /\ \E t \in Tasks : task[t].st = "Pending"

\* C7: an update(key, v) whose value is structurally equal to the item's
\* invokes no Task and does not re-run the Effect; one whose value differs
\* invokes the Task of that key.
C7_UpdateIdempotent ==
    [][eng'.call.key # "none" =>
          IF eng'.call.same
          THEN /\ eng'.invoked = {}
               /\ ~eng'.ran
               /\ eng'.s1 = eng.s1
               /\ eng'.s2 = eng.s2
          ELSE <<1, eng'.call.key>> \in eng'.invoked]_vars

\* C7 witness: x was updated to 2 and then to 2 again; the second call
\* invoked nothing.
C7_Witness ==
    /\ eng.calls = 2
    /\ eng.call = [key |-> "x", same |-> TRUE]
    /\ ItemOf(eng.items, "x").hash = 2
    /\ eng.s1["x"].gen = 2
    /\ eng.invoked = {}

\* C10: a second-stage Task is Pending whenever the first-stage Task it
\* reads is Pending, with no body of its latest generation in flight; it is
\* Err whenever that Task is Err; and a body of its latest generation has
\* been invoked only if that Task is Ok.
C10_TaskReadsTask ==
    \A k \in EKeys :
        /\ eng.s1[k].st = "Pending" =>
              /\ eng.s2[k].st = "Pending"
              /\ eng.s2[k].gen \notin eng.run2[k]
        /\ eng.s1[k].st = "Err" => eng.s2[k].st = "Err"
        /\ (eng.s2[k].gen \in eng.run2[k] \/ eng.s2[k].st = "Ok") =>
              eng.s1[k].st = "Ok"

\* C10 witness: the first-stage Task of x was invalidated while the
\* second-stage Task's body was in flight; that body is superseded and the
\* second-stage Task waits.
C10_Witness ==
    /\ eng.s1["x"] = [st |-> "Pending", gen |-> 2, of |-> 0]
    /\ eng.s2["x"].st = "Pending"
    /\ eng.run2["x"] # {}
    /\ eng.s2["x"].gen \notin eng.run2["x"]

\* C11: while the body of a Task's latest generation has not completed the
\* Task is Pending, and a run of the write Effect that takes the ok handler
\* is given the results of the Tasks' latest generations only.
C11_NoStaleValue ==
    /\ \A t \in Tasks : task[t].gen \in running[t] => task[t].st = "Pending"
    /\ (effectRan /\ "ok" \in lastRun.handlers) =>
          \A t \in Tasks : task[t].of = task[t].gen

\* C11 witness: bundleTask, whose first generation's result went into the
\* pages written, has been invalidated; its second generation is running
\* and the write Effect, re-run, found it Pending.
C11_Witness ==
    /\ task["bundleTask"] = [st |-> "Pending", gen |-> 2, of |-> 0]
    /\ running["bundleTask"] = {2}
    /\ \A p \in PageKeys : out[p] # 0
    /\ effectRan
    /\ lastRun.handlers = {"nil"}

\* The keys of the derived collection.
DerivedKeys == {k \in Keys : derived[k] # NoItem}

\* C12: once the derivation exists, its key set is the source list's,
\* whatever the watch callbacks have added and removed.
C12_DerivedMirrorsSource ==
    pc \in {"running", "disposed"} => DerivedKeys = ListKeys(mdFiles)

\* C12 witness: a was removed from the list and added again by the watch
\* callbacks, and the derivation has an item for it.
C12_Witness ==
    /\ pc = "running"
    /\ [i \in 1..Len(mdFiles) |-> mdFiles[i].path] = <<"b", "c", "a">>
    /\ derived["a"].st = "Ok"
    /\ DerivedKeys = Keys

\* C13: the list never holds two items with the same key, and a step that
\* appends an item appends one whose key the list did not hold.
C13_KeysUnique ==
    [][/\ Cardinality(ListKeys(mdFiles')) = Len(mdFiles')
       /\ Len(mdFiles') > Len(mdFiles) =>
             mdFiles'[Len(mdFiles')].path \notin ListKeys(mdFiles)]_vars

\* C13 witness: a.md was created and touched; the first event's callback
\* has added a while the callback of the second event, which has read the
\* file, is still to look a up.
C13_Witness ==
    /\ Len(mdFiles) = 3
    /\ mdFiles[3].path = "a"
    /\ \E cb \in cbs : cb.path = "a" /\ cb.hash # 0
    /\ ops = 2

C15_BuildResolves ==
    (~watch /\ pc = "running" /\ \A t \in Tasks : task[t].st \in {"Ok", "Err"})
        ~> buildResolved

\* C16: from dispose() on, no step runs the write Effect and no list has
\* an active watcher.
C16_Disposed ==
    [][pc' = "disposed" =>
          /\ ~effectRan'
          /\ ~effectLive'
          /\ \A i \in 1..Len(Lists) : watcher'[i] # "active"]_vars

\* C16 witness: a watch callback that was suspended in getFileInfo when
\* dispose() was called has resumed and changed the list; the transform
\* ran for the changed item, the write Effect did not run.
C16_Witness ==
    /\ watch
    /\ pc = "disposed"
    /\ recomputed # {}
    /\ ~effectRan
    /\ \A i \in 1..Len(Lists) : watcher[i] = "closed"

\* The key at which the eager read of the write Effect throws.
ThrowsAt ==
    mdFiles[CHOOSE i \in ErrAt(mdFiles, derived) :
                \A j \in ErrAt(mdFiles, derived) : i <= j].path

C18_WatchFailureSurvived == pc # "crashed"

\* C19 (as claimed): the tsFiles events of one burst invoke the body of
\* typedocTask once.
C19_OneBodyPerBurst == burst <= 1

\* C20: in dev mode, once build() has resolved, a change to a TypeScript
\* source (typedocTask re-invoked) eventually leads to the reload notification
\* (onPagesWritten), unless the pipeline was disposed or the change left a
\* Task or a page in error.
TsChanged ==
    /\ watch
    /\ pc = "running"
    /\ buildResolved
    /\ task["typedocTask"].st = "Pending"
    /\ task["typedocTask"].gen >= 2

C20_ChangeNotified ==
    TsChanged ~> (\/ notified
                  \/ pc = "disposed"
                  \/ lastRun.threw
                  \/ \E t \in Tasks : task[t].st = "Err")

\* C21: with onPagesWritten supplied (dev mode), the completion of a write
\* batch invokes onPagesWritten exactly when the batch is not the one of the
\* initial build: never for the first batch the Effect started, once for
\* each later batch.
CompletedBatch ==
    batches[CHOOSE i \in 1..Len(batches) :
                batches' = [j \in 1..(Len(batches) - 1) |->
                               IF j < i THEN batches[j] ELSE batches[j + 1]]]

C21_NotifyOnlyLaterBatches ==
    [][(watch /\ Len(batches') < Len(batches))
          => (notified' <=> ~CompletedBatch.initial)]_vars

\* C22: in dev mode, while the only changes since the pipeline was created
\* are changes of component files (every environment event so far
\* re-invoked bundleTask), no full-page reload is broadcast
\* (onPagesWritten is not invoked).
OnlyCssChanged ==
    /\ watch
    /\ ops >= 1
    /\ task["bundleTask"].gen = ops + 1

C22_CssChangeNoReload == OnlyCssChanged => ~notified

\* C23: after the initial build, a step that changes the content of one
\* markdown file and makes the write Effect start a batch starts the write
\* of that file's page and of no other page.
C23_OnlyChangedPageWritten ==
    [][\A k \in Keys :
         (initialBuildDone /\ UpdatedOnly(k) /\ Len(batches') > Len(batches))
            => LET todo == batches'[Len(batches')].todo
               IN  \A i \in 1..Len(todo) : todo[i] = k]_vars

\* C24: for a nav array without repeated names, generateNavHtml emits every
\* regular page exactly once, the pages named in nav in nav order and
\* before the pages not named; when API pages exist the API section stands
\* after the listed pages that nav names before "api" and before those nav
\* names after it, or last when nav does not name "api".
NavName(p) == IF p = "" THEN "index" ELSE p

C24_NavOrder ==
    (fcall.fn = "generateNavHtml" /\ fcall.returned /\ NoDup(fcall.navOrder)) =>
        LET res == fcall.result
            nav == fcall.navOrder
            regular == {fcall.pages[i] : i \in 1..Len(fcall.pages)} \ ApiSlugs
            hasApi == \E i \in 1..Len(fcall.pages) : IsApiSlug(fcall.pages[i])
            listed == {p \in regular : Includes(nav, NavName(p))}
        IN  /\ \A p \in regular :
                  Cardinality({i \in 1..Len(res) : res[i] = p}) = 1
            /\ \A i \in 1..Len(res) : res[i] \in regular \cup {ApiSection}
            /\ \A p, q \in listed :
                  IndexOf(nav, NavName(p)) < IndexOf(nav, NavName(q))
                     => IndexOf(res, p) < IndexOf(res, q)
            /\ \A p \in listed, q \in regular \ listed :
                  IndexOf(res, p) < IndexOf(res, q)
            /\ Includes(res, ApiSection) <=> hasApi
            /\ (hasApi /\ Includes(nav, "api")) =>
                  \A p \in listed :
                     IndexOf(res, p) < IndexOf(res, ApiSection)
                        <=> IndexOf(nav, NavName(p)) < IndexOf(nav, "api")
            /\ (hasApi /\ ~Includes(nav, "api")) =>
                  res[Len(res)] = ApiSection

\* C25: for every schema name with a schema file (one that has a default
\* export) in the built-in or the user directory, resolveSchemas returns
\* the user's schema when the user directory has one under that name and
\* the built-in one otherwise, under nodes iff the name is a Markdoc node
\* name and under tags otherwise, never under both.
HasSchema(dir, n) ==
    \E i \in 1..Len(dir.files) : dir.files[i] = [name |-> n, load |-> "ok"]

C25_UserOverridesBuiltin ==
    (fcall.fn = "resolveSchemas" /\ fcall.returned) =>
        \A n \in SchemaNames :
            LET res == fcall.result
                user == HasSchema(fcall.userDir, n)
                builtin == HasSchema(fcall.builtinDir, n)
                expected == [from |-> IF user THEN "user" ELSE "builtin", name |-> n]
            IN  (user \/ builtin) =>
                   /\ ~(n \in DOMAIN res.nodes /\ n \in DOMAIN res.tags)
                   /\ IF n \in NODE_NAMES
                      THEN n \in DOMAIN res.nodes /\ res.nodes[n] = expected
                      ELSE n \in DOMAIN res.tags /\ res.tags[n] = expected

\* C26: the markdown file <srcDir>/<d>/<b>.md is written to
\* <outDir>/<d>/<b>/index.html, except that a file named index.md, in
\* srcDir or in a directory <d> below it, is written to
\* <outDir>/<d>/index.html.
C26_FileRouting ==
    (fcall.fn = "route" /\ fcall.returned) =>
        fcall.result =
            IF fcall.base = <<"index">>
            THEN Join(<<OutDir>> \o fcall.dirs \o <<<<"index.html">>>>)
            ELSE Join(<<OutDir>> \o fcall.dirs \o <<fcall.base, <<"index.html">>>>)

\* C26 witness: an index.md in a directory below srcDir has been routed to
\* that directory's index.html.
C26_Witness ==
    /\ fcall.fn = "route"
    /\ fcall.returned
    /\ fcall.dirs = <<<<"x">>>>
    /\ fcall.base = <<"index">>
    /\ fcall.result = <<"/", "o", "/", "x", "/", "index.html">>

\* C27: the pending-task counter equals the number of Tasks that are
\* Pending, also after a Task that is already Pending was invalidated
\* again; it is never negative and is zero exactly when no Task is Pending.
PendingTasks ==
    {<<1, k>> : k \in {j \in EKeys : eng.s1[j].st = "Pending"}}
    \cup {<<2, k>> : k \in {j \in EKeys : eng.s2[j].st = "Pending"}}

C27_CounterAccurate ==
    /\ eng.pending = Cardinality(PendingTasks)
    /\ eng.pending >= 0
    /\ eng.pending = 0 <=> PendingTasks = {}

\* C28: while the Effect is live, once every write it started has
\* completed, each page of its last run holds the content that run produced, also when
\* the run started while the writes of the run before were in flight.
C28_LastWriteWins ==
    (effectLive /\ batches = <<>> /\ ~lastRun.threw /\ "ok" \in lastRun.handlers) =>
        \A i \in 1..Len(lastRun.pages) :
            out[lastRun.pages[i]] = PageContent(lastRun.pages[i], derived, task)

\* C29: a step that changes the graph and re-runs the write Effect lets the
\* Effect observe the graph as it is after the step, never a value from
\* before it: the pages it writes are those of the list after the step,
\* each with the content of its derived item and of typedocTask after the
\* step, and a derived item recomputed in the step holds the hash of its
\* source item after the step.
C29_GlitchFree ==
    [][/\ (effectRan' /\ "ok" \in lastRun'.handlers) =>
            LET b == batches'[Len(batches')]
            IN  /\ Len(batches') = Len(batches) + 1
                /\ b.todo = [i \in 1..Len(mdFiles') |-> mdFiles'[i].path] \o <<ApiPage>>
                /\ \A i \in 1..Len(b.todo) :
                      b.content[b.todo[i]] = PageContent(b.todo[i], derived', task')
       /\ \A k \in recomputed' :
            /\ k \in ListKeys(mdFiles')
            /\ derived'[k] = processMarkdoc(ItemOf(mdFiles', k))]_vars

\* C29 witness: one step updated b to new content, recomputed its derived
\* item and re-ran the Effect, whose batch holds b's new content.
C29_Witness ==
    /\ effectRan
    /\ recomputed = {"b"}
    /\ derived["b"] = [st |-> "Ok", hash |-> 2]
    /\ Len(batches) > 0
    /\ batches[Len(batches)].content["b"] = 2

\* C30: the write Effect's dependencies are those of its latest run only:
\* after a run that threw on a page they hold no Task and no config field,
\* after a run that did not take the ok branch no config field, after a run
\* that took it every config field the branch reads; and a config field
\* read by an earlier ok run does not re-run the Effect when it changes
\* after a run that did not take the ok branch.
C30_DynamicDeps ==
    [][/\ effectLive' =>
            /\ KeysNode \in effectDeps'
            /\ lastRun'.threw => effectDeps' \cap (Tasks \cup Fields) = {}
            /\ "ok" \notin lastRun'.handlers => effectDeps' \cap Fields = {}
            /\ "ok" \in lastRun'.handlers => ConfigReads \subseteq effectDeps'
       /\ (effectLive /\ "ok" \notin lastRun.handlers /\ config' # config)
            => ~effectRan']_vars

\* C30 witness: the initial ok run read the config and its batch is still
\* in flight; typedocTask was invalidated, the Effect re-ran into the nil
\* branch, and the title then changed without the Effect running again.
C30_Witness ==
    /\ effectLive
    /\ Len(batches) = 1
    /\ Len(batches[1].todo) = Len(mdFiles) + 1
    /\ task["typedocTask"] = [st |-> "Pending", gen |-> 2, of |-> 0]
    /\ lastRun.handlers = {"nil"}
    /\ config["title"] = 1
    /\ "title" \notin effectDeps
    /\ ~effectRan
    /\ ops = 2

\* C31: a batch that writes several dependencies of the terminal Effect
\* runs the Effect exactly once, and that run sees every write of the
\* batch: the handlers it dispatched to are those of the Tasks' states
\* after the batch.
C31_EffectCoalesced ==
    [][Cardinality(ChangedTasks(eng.s2, eng'.s2)) >= 2 =>
          /\ eng'.runs = 1
          /\ eng'.ran
          /\ eng'.handlers = EngMatch(eng'.s2)]_vars

\* C31 witness: one batch invalidated both second-stage Tasks, settled
\* before, and the Effect ran once, into the nil branch.
C31_Witness ==
    /\ eng.runs = 1
    /\ eng.call.key = "none"
    /\ eng.invoked = {<<1, "x">>, <<1, "y">>}
    /\ \A k \in EKeys : eng.s2[k].st = "Pending" /\ eng.s2[k].gen = 2
    /\ eng.handlers = {"nil"}

\* C32: while another Task stays Pending, the completion of the current
\* generation of a Task settles that Task, and the settled Task, like a
\* page whose derived item changes meanwhile, reaches the write Effect that
\* read it: the Effect re-runs in the same step.
OtherPending(t) ==
    \E u \in Tasks \ {t} : task[u].st = "Pending" /\ task'[u].st = "Pending"

C33_PagesAlwaysTracked ==
    [][/\ (effectLive' /\ effectRan') => ListKeys(mdFiles') \subseteq effectDeps'
       /\ \A k \in Keys :
            (/\ effectLive
             /\ derived[k] # NoItem
             /\ derived'[k] # NoItem
             /\ derived'[k] # derived[k])
            => effectRan']_vars

\* C34: while the markdown watcher is active, once every event has been
\* delivered and every callback has completed, the list holds the key of a
\* path iff its file exists, with the hash of the file's content.
C34_WatcherConverges ==
    (MdWatched /\ events = {} /\ cbs = {}) =>
        \A k \in Keys :
            /\ k \in ListKeys(mdFiles) <=> fs[k] # NoFile
            /\ k \in ListKeys(mdFiles) => ItemOf(mdFiles, k).hash = fs[k].hash

\* C35: two distinct markdown files of one site are written to distinct
\* output paths.
C35_OutPathsUnique ==
    (fcall.fn = "routePair" /\ fcall.returned /\ fcall.first # fcall.second) =>
        fcall.result[1] # fcall.result[2]

\* C36: once dispose() has returned, no step invokes onPagesWritten, also
\* when page writes started before dispose() complete afterwards.
C36_SilentAfterDispose == pc = "disposed" => ~notified

\* C37: a run of the write Effect in which one of the four Tasks is Err
\* starts no page write and resolves build(); the pipeline does not fail.
C37_ErrResolvesBuild ==
    [][(effectRan' /\ ~lastRun'.threw /\ \E t \in Tasks : task'[t].st = "Err") =>
          /\ lastRun'.handlers = {"err"}
          /\ lastRun'.pages = <<>>
          /\ batches' = batches
          /\ buildResolved'
          /\ pc' # "crashed"]_vars

\* C37 witness: build() has resolved through the err branch and no page was
\* ever written.
C37_Witness ==
    /\ effectRan
    /\ lastRun.handlers = {"err"}
    /\ buildResolved
    /\ ~initialBuildDone
    /\ batches = <<>>
    /\ \A p \in PageKeys : out[p] = 0

\* C38: bundleTask is never in Err; when bundleComponents throws it settles
\* Ok with the empty BundleResult, and a run of the write Effect that finds
\* the four Tasks Ok then takes the ok branch and starts the page writes.
C38_BundleFailureStaysOk ==
    [][/\ task'["bundleTask"].st # "Err"
       /\ (bundle'.throws /\ task'["bundleTask"].st = "Ok") =>
              bundle'.result = "empty"
       /\ (/\ effectRan'
           /\ ~lastRun'.threw
           /\ bundle'.throws
           /\ \A t \in Tasks : task'[t].st = "Ok") =>
              /\ lastRun'.handlers = {"ok"}
              /\ lastRun'.pages # <<>>
              /\ Len(batches') = Len(batches) + 1]_vars

\* C38 witness: bundleComponents threw, bundleTask is Ok with the empty
\* result and the initial build has written every page.
C38_Witness ==
    /\ bundle = [throws |-> TRUE, result |-> "empty"]
    /\ task["bundleTask"].st = "Ok"
    /\ lastRun.handlers = {"ok"}
    /\ initialBuildDone
    /\ \A p \in PageKeys : out[p] # 0

\* C39: no step deletes an output file, and once a markdown file is gone
\* from disk, from the list and from the derived collection, no run of the
\* write Effect starts a write of its page: the output written for it
\* before stays as it is.
C39_OutputNeverDeleted ==
    [][/\ \A p \in PageKeys : out[p] # 0 => out'[p] # 0
       /\ \A k \in Keys :
            (/\ fs[k] = NoFile
             /\ k \notin ListKeys(mdFiles)
             /\ derived[k] = NoItem
             /\ out[k] # 0
             /\ Len(batches') > Len(batches)) =>
                LET b == batches'[Len(batches')]
                IN  \A i \in 1..Len(b.todo) : b.todo[i] # k]_vars

\* C39 witness: a.md was removed after its page had been written, the
\* removal has reached the list and the collection, and the Effect run that
\* followed is writing the remaining pages while a's output is still there.
C39_Witness ==
    /\ fs["a"] = NoFile
    /\ "a" \notin ListKeys(mdFiles)
    /\ derived["a"] = NoItem
    /\ out["a"] # 0
    /\ lastRun.handlers = {"ok"}
    /\ batches # <<>>
    /\ ~batches[Len(batches)].initial
    /\ \A i \in 1..Len(batches[Len(batches)].todo) :
            batches[Len(batches)].todo[i] # "a"

====
